---- MODULE Spec2Model ----
(***************************************************************************)
(* Model of src/services/MenuBuilder.ts: the tag collector                 *)
(* (getTagsWithOperations) and the content-tree assembly (buildStructure,  *)
(* addMarkdownItems, getTagGroupsItems, getTagsItems, getOperationsItems), *)
(* together with the process-wide security-scheme id prefix the assembly   *)
(* writes.                                                                 *)
(*                                                                         *)
(* An OpenAPI document is a record                                         *)
(*   [description, tags, paths, tagGroups]                                 *)
(* where a description is given by the heading tree the markdown renderer  *)
(* extracts from it, a path item is the sequence of its keys in key order, *)
(* and an object used as a dictionary is the sequence of its own entries   *)
(* in insertion order (the order Object.keys reports for non-numeric       *)
(* keys).                                                                  *)
(***************************************************************************)
EXTENDS Integers, Sequences, FiniteSets, TLC

VARIABLES
    spec,                  \* parser.spec: the document being rendered
    tagsMap,               \* the TagsInfoMap of the last call (empty if it threw)
    items,                 \* the ContentItemModel[] of the last buildStructure
    threw,                 \* the last call ended in a TypeError
    warnings,              \* tag names console.warn reported in the last call
    securitySchemePrefix,  \* the module-level prefix setSecuritySchemePrefix writes
    lastOp                 \* which entry point ran last

vars == <<spec, tagsMap, items, threw, warnings, securitySchemePrefix, lastOp>>

-----------------------------------------------------------------------------
(* Bounds of the explored documents *)

MaxPaths == 2
MaxTags == 2
MaxGroups == 2
MaxHeadings == 2

-----------------------------------------------------------------------------
(* Constants of the program *)

GROUP_DEPTH == 0

\* the fixed set of HTTP operation names, in the order the spec lists them
OperationNames == <<"get", "put", "post", "delete", "options", "head", "patch", "trace">>

\* property names every object literal inherits from Object.prototype
ObjectPrototypeKeys == {"constructor", "toString", "valueOf", "hasOwnProperty"}

\* the value of the prefix before any section registered itself
InitialPrefix == "initial/"

Range(s) == {s[i] : i \in 1..Len(s)}

-----------------------------------------------------------------------------
(* JavaScript objects used as dictionaries *)

Undefined == [kind |-> "undefined"]

\* what reading an inherited property of a plain object yields: a function of
\* Object.prototype, truthy, with no `operations` and no 'x-traitTag'
Inherited(name) == [kind |-> "inherited", name |-> name]

OwnIndex(dict, name) ==
    IF \E i \in 1..Len(dict) : dict[i].name = name
    THEN CHOOSE i \in 1..Len(dict) : dict[i].name = name
    ELSE 0

HasOwn(dict, name) == OwnIndex(dict, name) > 0

\* dict[name]: the own entry, else the inherited property, else undefined
Get(dict, name) ==
    IF HasOwn(dict, name) THEN dict[OwnIndex(dict, name)]
    ELSE IF name \in ObjectPrototypeKeys THEN Inherited(name)
    ELSE Undefined

\* dict[name] = value: an existing key keeps its place, a new key goes last
Put(dict, name, value) ==
    IF HasOwn(dict, name) THEN [dict EXCEPT ![OwnIndex(dict, name)] = value]
    ELSE Append(dict, value)

\* Object.keys(dict)
Keys(dict) == [i \in 1..Len(dict) |-> dict[i].name]

-----------------------------------------------------------------------------
(* getTagsWithOperations *)

isOperationName(key) == key \in Range(OperationNames)

\* { ...tag, operations: [] }
SeedTagInfo(tag) ==
    [kind |-> "tag", name |-> tag.name, trait |-> tag.trait,
     description |-> tag.description, operations |-> <<>>, used |-> FALSE]

\* { name: tagName, operations: [] }
LazyTagInfo(tagName) ==
    [kind |-> "tag", name |-> tagName, trait |-> FALSE,
     description |-> <<>>, operations |-> <<>>, used |-> FALSE]

RECURSIVE SeedTags(_, _)
SeedTags(tags, declared) ==
    IF declared = <<>> THEN tags
    ELSE SeedTags(Put(tags, Head(declared).name, SeedTagInfo(Head(declared))),
                  Tail(declared))

\* (mutant) the operations of a path item taken in the fixed verb order
OperationKeys_FixedOrder(path) ==
    LET present == SelectSeq(OperationNames,
                             LAMBDA v : \E e \in Range(path.entries) : e.key = v)
    IN  [i \in 1..Len(present) |->
            CHOOSE e \in Range(path.entries) : e.key = present[i]]

\* Object.keys(path).filter(isOperationName)
OperationKeys(path) == SelectSeq(path.entries, LAMBDA e : isOperationName(e.key))

\* (mutant) an operation without tags is filed nowhere
EffectiveTags_NoAnonymous(operationTags) == operationTags

\* operationInfo.tags, or [''] when absent or empty
EffectiveTags(operationTags) ==
    IF Len(operationTags) = 0 THEN <<"">> ELSE operationTags

\* (mutant) the x-traitTag flag is ignored
isTraitTag_Never(tag) == FALSE

isTraitTag(tag) == tag.trait

ExtendedOperation(pathName, operationName) ==
    [pathName |-> pathName, httpVerb |-> operationName]

PushOperation(tag, operation) ==
    [tag EXCEPT !.operations = Append(@, operation)]

\* one iteration of `for (const tagName of operationTags)`
FileUnderTag(st, tagName, operation) ==
    LET found == Get(st.tags, tagName) IN
    IF found = Undefined
    THEN [st EXCEPT !.tags = Append(st.tags, PushOperation(LazyTagInfo(tagName), operation))]
    ELSE IF found.kind = "inherited"
    THEN [st EXCEPT !.threw = TRUE]   \* tag.operations is undefined: push throws
    ELSE IF isTraitTag(found) THEN st
    ELSE [st EXCEPT !.tags = Put(st.tags, tagName, PushOperation(found, operation))]

RECURSIVE FileUnderTags(_, _, _)
FileUnderTags(st, tagNames, operation) ==
    IF st.threw \/ tagNames = <<>> THEN st
    ELSE FileUnderTags(FileUnderTag(st, Head(tagNames), operation),
                       Tail(tagNames), operation)

RECURSIVE CollectOperations(_, _, _)
CollectOperations(st, pathName, operations) ==
    IF st.threw \/ operations = <<>> THEN st
    ELSE CollectOperations(
             FileUnderTags(st, EffectiveTags(Head(operations).tags),
                           ExtendedOperation(pathName, Head(operations).key)),
             pathName, Tail(operations))

RECURSIVE CollectPaths(_, _)
CollectPaths(st, paths) ==
    IF st.threw \/ paths = <<>> THEN st
    ELSE CollectPaths(
             CollectOperations(st, Head(paths).pathName, OperationKeys(Head(paths))),
             Tail(paths))

getTagsWithOperations(doc) ==
    CollectPaths([threw |-> FALSE, tags |-> SeedTags(<<>>, doc.tags)], doc.paths)

-----------------------------------------------------------------------------
(* Content nodes: GroupModel and OperationModel, by their structural fields *)

NoParent == [type |-> "none", name |-> ""]

NoGroup == [name |-> "", tags |-> <<>>, all |-> TRUE]

ParentRef(parent) == [type |-> parent.type, name |-> parent.name]

\* new GroupModel(type, source, parent); `marker` says whether the group's
\* description contains the security-definitions component
GroupModel(type, name, marker, parent) ==
    [type |-> type, name |-> name, depth |-> 0, parent |-> ParentRef(parent),
     marker |-> marker, pathName |-> "", httpVerb |-> "", items |-> <<>>]

\* new OperationModel(parser, operationInfo, parent, options)
OperationModel(operationInfo, parent) ==
    [type |-> "operation", name |-> "", depth |-> 0, parent |-> ParentRef(parent),
     marker |-> FALSE, pathName |-> operationInfo.pathName,
     httpVerb |-> operationInfo.httpVerb, items |-> <<>>]

-----------------------------------------------------------------------------
(* addMarkdownItems *)

RECURSIVE mapHeadingsDeep(_, _, _)
mapHeadingsDeep(parent, headings, depth) ==
    [i \in 1..Len(headings) |->
        LET heading == headings[i]
            group == [GroupModel("section", heading.id, heading.marker, parent)
                        EXCEPT !.depth = depth]
        IN  [group EXCEPT !.items = mapHeadingsDeep(group, heading.items, depth + 1)]]

FirstHeadingDepth == 1

addMarkdownItems(description, grandparent) ==
    mapHeadingsDeep(grandparent, description, FirstHeadingDepth)

\* the values setSecuritySchemePrefix receives while mapHeadingsDeep runs, in
\* call order: a heading's sub-headings are mapped before the heading's own
\* description is tested
RECURSIVE PrefixWrites(_)
PrefixWrites(headings) ==
    IF headings = <<>> THEN <<>>
    ELSE LET heading == Head(headings) IN
         PrefixWrites(heading.items)
           \o (IF heading.marker THEN <<heading.id \o "/">> ELSE <<>>)
           \o PrefixWrites(Tail(headings))

\* (mutant) the prefix is reset when no section registers itself
setSecuritySchemePrefix_Reset(prefix, description) ==
    LET writes == PrefixWrites(description) IN
    IF writes = <<>> THEN InitialPrefix ELSE writes[Len(writes)]

\* the prefix after addMarkdownItems(description, ...) ran
setSecuritySchemePrefix(prefix, description) ==
    LET writes == PrefixWrites(description) IN
    IF writes = <<>> THEN prefix ELSE writes[Len(writes)]

-----------------------------------------------------------------------------
(* getOperationsItems, getTagsItems, getTagGroupsItems *)

getOperationsItems(parent, tag, depth) ==
    [i \in 1..Len(tag.operations) |->
        [OperationModel(tag.operations[i], parent) EXCEPT !.depth = depth]]

\* (mutant) a tag Group takes the depth of an explicit group
TagGroupDepth_Zero == GROUP_DEPTH

TagGroupDepth == GROUP_DEPTH + 1

OperationDepth(item) == item.depth + 1

\* the body of `for (const tag of tags)` for a tag of the map: what it pushes
ExpandTag(tag, parent) ==
    LET item == [GroupModel("tag", tag.name, FALSE, parent) EXCEPT !.depth = TagGroupDepth] IN
    IF tag.name = ""
    THEN addMarkdownItems(tag.description, item)
           \o getOperationsItems(NoParent, tag, OperationDepth(item))
    ELSE << [item EXCEPT !.items =
                addMarkdownItems(tag.description, item)
                  \o getOperationsItems(item, tag, OperationDepth(item))] >>

\* tagNames: Object.keys(tagsMap) without a group, group.tags with one
TagNamesOf(tags, group) == IF group.all THEN Keys(tags) ELSE group.tags

\* tagsMap[tagName].used = true, for every name the lookup finds in the map
\* (for an inherited name the flag lands on the Object.prototype function and
\* the map is unchanged)
RECURSIVE MarkUsed(_, _)
MarkUsed(tags, tagNames) ==
    IF tagNames = <<>> THEN tags
    ELSE LET name == Head(tagNames) IN
         MarkUsed(IF HasOwn(tags, name)
                  THEN Put(tags, name, [Get(tags, name) EXCEPT !.used = TRUE])
                  ELSE tags,
                  Tail(tagNames))

\* !tagsMap[tagName]: only undefined is falsy here
IsMissing(tags, tagName) == Get(tags, tagName) = Undefined

RECURSIVE ExpandTags(_, _, _)
ExpandTags(st, found, parent) ==
    IF st.threw \/ found = <<>> THEN st
    ELSE LET tag == Head(found) IN
         ExpandTags(
             IF tag = Undefined THEN st
             ELSE IF tag.kind = "inherited"
             THEN [st EXCEPT !.threw = TRUE]   \* tag.operations.length throws
             ELSE [st EXCEPT !.res = @ \o ExpandTag(tag, parent),
                             !.prefix = setSecuritySchemePrefix(@, tag.description)],
             Tail(found), parent)

\* st carries the map, the warnings and the prefix through the calls
getTagsItems(st, parent, group) ==
    LET tagNames == TagNamesOf(st.tags, group)
        found    == [i \in 1..Len(tagNames) |->
                        IF IsMissing(st.tags, tagNames[i]) THEN Undefined
                        ELSE Get(st.tags, tagNames[i])]
        missing  == SelectSeq(tagNames, LAMBDA n : IsMissing(st.tags, n))
    IN  ExpandTags([st EXCEPT !.tags = MarkUsed(st.tags, tagNames),
                              !.warnings = @ \o missing,
                              !.res = <<>>],
                   found, parent)

RECURSIVE getTagGroupsItems(_, _)
getTagGroupsItems(st, groups) ==
    IF st.threw \/ groups = <<>> THEN st
    ELSE LET group == Head(groups)
             item  == [GroupModel("group", group.name, FALSE, NoParent)
                         EXCEPT !.depth = GROUP_DEPTH]
             inner == getTagsItems(st, item, [group EXCEPT !.all = FALSE])
         IN  getTagGroupsItems(
                 [inner EXCEPT !.res = Append(st.res, [item EXCEPT !.items = inner.res])],
                 Tail(groups))

-----------------------------------------------------------------------------
(* buildStructure *)

\* (mutant) the narrative Groups are appended instead of prepended
RootItems_TagsFirst(markdown, rest) == rest \o markdown

RootItems(markdown, rest) == markdown \o rest

HasTagGroups(doc) == Len(doc.tagGroups) > 0

buildStructure(doc, prefix) ==
    LET collected == getTagsWithOperations(doc)
        start == [threw |-> FALSE, tags |-> collected.tags, warnings |-> <<>>,
                  res |-> <<>>, prefix |-> setSecuritySchemePrefix(prefix, doc.description)]
        rest  == IF HasTagGroups(doc)
                 THEN getTagGroupsItems(start, doc.tagGroups)
                 ELSE getTagsItems(start, NoParent, NoGroup)
    IN  IF collected.threw
        THEN [threw |-> TRUE, tags |-> <<>>, warnings |-> <<>>, res |-> <<>>,
              prefix |-> prefix]
        ELSE IF rest.threw
        THEN [rest EXCEPT !.tags = <<>>, !.res = <<>>]
        ELSE [rest EXCEPT !.res = RootItems(addMarkdownItems(doc.description, NoParent), rest.res)]

-----------------------------------------------------------------------------
(* The documents explored *)

SeqsUpTo(S, n) == UNION {[1..k -> S] : k \in 0..n}

Heading(id, marker, sub) == [id |-> id, marker |-> marker, items |-> sub]

TagDecl(name, trait, description) ==
    [name |-> name, trait |-> trait, description |-> description]

PathNames == <<"/p1", "/p2", "/p3", "/p4">>
GroupNames == <<"G1", "G2", "G3", "G4">>
HeadingIds == <<"h1", "h2", "h3", "h4">>

InfoDescriptions ==
    { <<>>, << Heading("intro", FALSE, << Heading("auth", TRUE, <<>>) >>) >> }

TagDecls ==
    { TagDecl("a", FALSE, <<>>),
      TagDecl("a", TRUE, <<>>),
      TagDecl("b", FALSE, << Heading("b-notes", FALSE, <<>>) >>),
      TagDecl("", FALSE, << Heading("misc", FALSE, << Heading("misc-more", FALSE, <<>>) >>) >>) }

\* a path item: its keys in key order, every operation of it carrying opTags
\* (<<>> stands for an absent or empty `tags`)
PathItem(keys, opTags) ==
    [i \in 1..Len(keys) |->
        [key |-> keys[i], tags |-> IF isOperationName(keys[i]) THEN opTags ELSE <<>>]]

PathItems ==
    { PathItem(<<"put", "get">>, <<"b", "a">>),
      PathItem(<<"put", "get">>, <<>>),
      PathItem(<<"parameters", "get">>, <<>>),
      PathItem(<<"parameters", "get">>, <<"a", "a">>),
      PathItem(<<"parameters", "get">>, <<"constructor">>) }

PathMaps ==
    { [i \in 1..Len(ps) |-> [pathName |-> PathNames[i], entries |-> ps[i]]] :
        ps \in SeqsUpTo(PathItems, MaxPaths) }

GroupTagLists ==
    { <<"a">>, <<"b", "a">>, <<"missing", "a">>, <<"", "b">>, <<"constructor", "a">> }

TagGroupLists ==
    { [i \in 1..Len(gs) |-> [name |-> GroupNames[i], tags |-> gs[i], all |-> FALSE]] :
        gs \in SeqsUpTo(GroupTagLists, MaxGroups) \ {<<>>} }

Document(description, tags, paths, tagGroups) ==
    [description |-> description, tags |-> tags, paths |-> paths, tagGroups |-> tagGroups]

\* documents without x-tagGroups
TagDocuments ==
    { Document(d, ts, ps, <<>>) :
        d \in InfoDescriptions, ts \in SeqsUpTo(TagDecls, MaxTags), ps \in PathMaps }

GroupedTags ==
    { << TagDecl("a", FALSE, <<>>),
         TagDecl("b", FALSE, << Heading("b-notes", FALSE, <<>>) >>) >>,
      << TagDecl("", FALSE, << Heading("misc", TRUE, <<>>) >>),
         TagDecl("a", TRUE, <<>>) >> }

GroupedPaths ==
    { <<>>,
      << [pathName |-> "/p1", entries |-> PathItem(<<"put", "get">>, <<"b", "a">>)],
         [pathName |-> "/p2", entries |-> PathItem(<<"parameters", "get">>, <<>>)] >> }

\* documents with x-tagGroups
GroupDocuments ==
    { Document(d, ts, ps, gs) :
        d \in InfoDescriptions, ts \in GroupedTags, ps \in GroupedPaths,
        gs \in TagGroupLists }

Documents == TagDocuments \cup GroupDocuments

\* documents of a process that renders several: they differ in their sections
SessionHeadings ==
    { [i \in 1..Len(hs) |-> Heading(HeadingIds[i], hs[i][1], hs[i][2])] :
        hs \in SeqsUpTo(BOOLEAN \X
                          { <<>> , << Heading("sub", TRUE, <<>>) >>,
                            << Heading("sub", FALSE, <<>>) >> },
                        MaxHeadings) }

SessionDocuments ==
    { Document(d, ts, <<>>, <<>>) :
        d \in SessionHeadings,
        ts \in { <<>>, << TagDecl("a", FALSE, << Heading("a-auth", TRUE, <<>>) >>) >> } }

-----------------------------------------------------------------------------
(* The state machine *)

Fresh(doc) ==
    /\ spec = doc
    /\ tagsMap = <<>>
    /\ items = <<>>
    /\ threw = FALSE
    /\ warnings = <<>>
    /\ lastOp = "none"

Init ==
    /\ \E doc \in Documents : Fresh(doc)
    /\ securitySchemePrefix = InitialPrefix

SessionInit ==
    /\ \E doc \in SessionDocuments : Fresh(doc)
    /\ securitySchemePrefix = InitialPrefix

\* a caller collects the tags of the document
GetTagsWithOperations ==
    LET r == getTagsWithOperations(spec) IN
    /\ tagsMap' = IF r.threw THEN <<>> ELSE r.tags
    /\ threw' = r.threw
    /\ items' = <<>>
    /\ warnings' = <<>>
    /\ lastOp' = "getTagsWithOperations"
    /\ UNCHANGED <<spec, securitySchemePrefix>>

\* a caller builds the content tree of the document
BuildStructure ==
    LET r == buildStructure(spec, securitySchemePrefix) IN
    /\ tagsMap' = r.tags
    /\ threw' = r.threw
    /\ items' = r.res
    /\ warnings' = r.warnings
    /\ securitySchemePrefix' = r.prefix
    /\ lastOp' = "buildStructure"
    /\ UNCHANGED spec

\* the process moves on to another document (a new parser)
LoadSpec(doc) ==
    /\ spec' = doc
    /\ tagsMap' = <<>>
    /\ items' = <<>>
    /\ threw' = FALSE
    /\ warnings' = <<>>
    /\ lastOp' = "none"
    /\ UNCHANGED securitySchemePrefix

Next ==
    \/ GetTagsWithOperations
    \/ BuildStructure

SessionNext ==
    \/ \E doc \in SessionDocuments : LoadSpec(doc)
    \/ GetTagsWithOperations
    \/ BuildStructure

Spec == Init /\ [][Next]_vars

SessionSpec == SessionInit /\ [][SessionNext]_vars

-----------------------------------------------------------------------------
(* Vocabulary of the properties, stated over the document and the results *)

Built == lastOp = "buildStructure" /\ ~threw

Collected == lastOp = "getTagsWithOperations" /\ ~threw

\* the operations of a document with their place in the path map (path) and
\* in their path item (key)
OperationsOf(doc) ==
    UNION { { [path |-> i, key |-> k, pathName |-> doc.paths[i].pathName,
               httpVerb |-> doc.paths[i].entries[k].key,
               tags |-> doc.paths[i].entries[k].tags] :
                k \in { k \in 1..Len(doc.paths[i].entries) :
                          doc.paths[i].entries[k].key \in Range(OperationNames) } } :
            i \in 1..Len(doc.paths) }

TagsOfOperation(o) == IF o.tags = <<>> THEN {""} ELSE Range(o.tags)

DeclaredNames(doc) == { doc.tags[i].name : i \in 1..Len(doc.tags) }

\* the distinct tag names of a document, declared or carried by an operation
DistinctTagNames(doc) ==
    DeclaredNames(doc) \cup UNION { TagsOfOperation(o) : o \in OperationsOf(doc) }

\* the declaration of `name` that counts (the last one) carries x-traitTag
DeclaredTrait(doc, name) ==
    \E i \in 1..Len(doc.tags) :
        /\ doc.tags[i].name = name
        /\ doc.tags[i].trait
        /\ \A j \in (i + 1)..Len(doc.tags) : doc.tags[j].name # name

\* the place of an operation of a tag's array in the document
PlaceOf(doc, operation) ==
    CHOOSE o \in OperationsOf(doc) :
        o.pathName = operation.pathName /\ o.httpVerb = operation.httpVerb

VerbIndex(verb) == CHOOSE i \in 1..Len(OperationNames) : OperationNames[i] = verb

\* the root sequence after the sections of info.description
AfterNarrative == SubSeq(items, Len(spec.description) + 1, Len(items))

OfType(nodes, type) == SelectSeq(nodes, LAMBDA n : n.type = type)

Names(nodes) == [i \in 1..Len(nodes) |-> nodes[i].name]

Identities(operations) ==
    [i \in 1..Len(operations) |->
        <<operations[i].pathName, operations[i].httpVerb>>]

RootContainer == [type |-> "root", name |-> "", depth |-> -1]

\* every node of a tree with the node that contains it
RECURSIVE Placed(_, _)
Placed(nodes, container) ==
    UNION { {[node |-> nodes[i], in |-> container]} \cup Placed(nodes[i].items, nodes[i]) :
            i \in 1..Len(nodes) }

\* a node the expansion of the anonymous tag put in the tag Group's place
Hoisted(p) ==
    /\ p.in.type \in {"root", "group"}
    /\ \/ p.node.type = "operation"
       \/ p.node.type = "section" /\ p.node.parent = [type |-> "tag", name |-> ""]

\* the prefixes the sections of a tree registered, in registration order
RECURSIVE TreeWrites(_)
TreeWrites(nodes) ==
    IF nodes = <<>> THEN <<>>
    ELSE TreeWrites(Head(nodes).items)
           \o (IF Head(nodes).type = "section" /\ Head(nodes).marker
               THEN <<Head(nodes).name \o "/">> ELSE <<>>)
           \o TreeWrites(Tail(nodes))

-----------------------------------------------------------------------------
(* C1 *)

\* C1: with x-tagGroups supplied and non-empty, buildStructure returns, and
\* the output after the narrative Groups is one 'group' Group per group
\* definition, in order, at depth 0, whose tag Groups are exactly the named
\* tags that were collected, in the definition's order; a named tag that was
\* not collected is skipped with a warning and the rest is still processed.
\* (The anonymous tag has no tag Group; its hoisted nodes are C6's subject.)
C1_ExplicitGroups ==
    (lastOp = "buildStructure" /\ HasTagGroups(spec)) =>
        /\ ~threw
        /\ Len(AfterNarrative) = Len(spec.tagGroups)
        /\ \A i \in 1..Len(spec.tagGroups) :
            LET group == AfterNarrative[i]
                named == spec.tagGroups[i].tags
            IN  /\ group.type = "group"
                /\ group.name = spec.tagGroups[i].name
                /\ group.depth = 0
                /\ Names(OfType(group.items, "tag"))
                     = SelectSeq(named, LAMBDA n : n \in DistinctTagNames(spec) /\ n # "")
        /\ Range(warnings)
             = UNION { Range(spec.tagGroups[i].tags) : i \in 1..Len(spec.tagGroups) }
                 \ DistinctTagNames(spec)

-----------------------------------------------------------------------------
(* C2 *)

\* C2: without explicit groups, a document with N distinct tag names yields,
\* after the narrative Groups, exactly N root entries (all tag Groups) when no
\* tag is anonymous, and otherwise N-1 named tag Groups with the anonymous
\* tag's operations spliced at the root, in their order.
C2_TopLevelCount ==
    (Built /\ ~HasTagGroups(spec)) =>
        LET names == DistinctTagNames(spec)
            rest  == AfterNarrative
            anonymous == { o \in OperationsOf(spec) : "" \in TagsOfOperation(o) }
            spliced == OfType(rest, "operation")
        IN  IF "" \notin names
            THEN /\ Len(rest) = Cardinality(names)
                 /\ Range(Names(rest)) = names
                 /\ \A i \in 1..Len(rest) : rest[i].type = "tag"
            ELSE /\ Len(OfType(rest, "tag")) = Cardinality(names) - 1
                 /\ Range(Names(OfType(rest, "tag"))) = names \ {""}
                 /\ Len(spliced) = Cardinality(anonymous)
                 /\ \A o \in anonymous :
                        \E i \in 1..Len(spliced) :
                            /\ spliced[i].pathName = o.pathName
                            /\ spliced[i].httpVerb = o.httpVerb

C2_Witness ==
    /\ Built
    /\ ~HasTagGroups(spec)
    /\ "" \in DistinctTagNames(spec)
    /\ Cardinality(DistinctTagNames(spec)) >= 2
    /\ Len(OfType(AfterNarrative, "operation")) >= 1
    /\ Len(OfType(AfterNarrative, "tag")) >= 1

-----------------------------------------------------------------------------
(* C3 *)

\* C3 (as claimed): in the returned map every tag's operations are ordered by
\* path in path-map order and, within a path, by verb in the fixed order
\* get, put, post, delete, options, head, patch, trace, whatever the key order
\* of the path item.
C3_FixedVerbOrder ==
    Collected =>
        \A t \in 1..Len(tagsMap) :
            LET ops == tagsMap[t].operations IN
            \A i, j \in 1..Len(ops) :
                i < j =>
                    LET a == PlaceOf(spec, ops[i])
                        b == PlaceOf(spec, ops[j])
                    IN  \/ a.path < b.path
                        \/ /\ a.path = b.path
                           /\ VerbIndex(a.httpVerb) <= VerbIndex(b.httpVerb)

\* C3 (amended): in the returned map every tag's operations are ordered by
\* path in path-map order and, within a path, by the position of the verb
\* key in the path item.
C3_KeyOrder ==
    Collected =>
        \A t \in 1..Len(tagsMap) :
            LET ops == tagsMap[t].operations IN
            \A i, j \in 1..Len(ops) :
                i < j =>
                    LET a == PlaceOf(spec, ops[i])
                        b == PlaceOf(spec, ops[j])
                    IN  \/ a.path < b.path
                        \/ a.path = b.path /\ a.key <= b.key

C3_Witness ==
    /\ Collected
    /\ \E t \in 1..Len(tagsMap) :
        LET ops == tagsMap[t].operations IN
        \E i, j \in 1..Len(ops) :
            /\ i < j
            /\ ops[i].pathName = ops[j].pathName
            /\ VerbIndex(ops[i].httpVerb) > VerbIndex(ops[j].httpVerb)
            /\ \E k \in 1..Len(ops) : ops[k].pathName # ops[i].pathName

-----------------------------------------------------------------------------
(* C4 *)

\* C4: in the returned map a tag declared with x-traitTag has no operations,
\* however many operations list it, and every other tag an operation lists
\* has that operation.
C4_TraitTags ==
    Collected =>
        /\ \A name \in DeclaredNames(spec) :
            DeclaredTrait(spec, name) =>
                /\ HasOwn(tagsMap, name)
                /\ Get(tagsMap, name).operations = <<>>
        /\ \A o \in OperationsOf(spec) :
            \A name \in TagsOfOperation(o) :
                ~DeclaredTrait(spec, name) =>
                    /\ HasOwn(tagsMap, name)
                    /\ <<o.pathName, o.httpVerb>>
                         \in Range(Identities(Get(tagsMap, name).operations))

C4_Witness ==
    /\ Collected
    /\ \E o \in OperationsOf(spec) :
        \E trait, plain \in TagsOfOperation(o) :
            /\ DeclaredTrait(spec, trait)
            /\ ~DeclaredTrait(spec, plain)
            /\ Get(tagsMap, trait).operations = <<>>
            /\ Get(tagsMap, plain).operations # <<>>

-----------------------------------------------------------------------------
(* C5 *)

\* C5 (as claimed): every 'tag' Group of the output has depth one greater
\* than its parent's: 1 inside an explicit 'group' Group (depth 0), and 0 at
\* the top level, where it has no parent.
C5_DepthFromParent ==
    Built =>
        \A p \in Placed(items, RootContainer) :
            p.node.type = "tag" =>
                IF p.in.type = "root" THEN p.node.depth = 0
                ELSE p.node.depth = p.in.depth + 1

\* C5 (amended): every 'tag' Group of the output has depth GROUP_DEPTH + 1
\* = 1: one greater than its parent's depth inside an explicit 'group' Group
\* (depth 0), and 1 as well at the top level, where it has no parent.
C5_TagDepthIsOne ==
    Built =>
        \A p \in Placed(items, RootContainer) :
            p.node.type = "tag" =>
                /\ p.node.depth = 1
                /\ p.in.type \in {"root", "group"}
                /\ p.in.type = "root" => p.node.parent = NoParent
                /\ p.in.type = "group" =>
                      /\ p.node.parent = ParentRef(p.in)
                      /\ p.node.depth = p.in.depth + 1

C5_Witness ==
    /\ Built
    /\ \E i \in 1..Len(items) : items[i].type = "tag" /\ items[i].parent = NoParent

-----------------------------------------------------------------------------
(* C6 *)

\* C6: the anonymous tag gets no 'tag' Group, and the nodes
\* returned in its place, narrative Groups then Operations, all have the
\* depth the tag Group would have had, plus 1.
C6_HoistedSameDepth ==
    Built =>
        \A p \in Placed(items, RootContainer) :
            /\ ~(p.node.type = "tag" /\ p.node.name = "")
            /\ Hoisted(p) => p.node.depth = (GROUP_DEPTH + 1) + 1

-----------------------------------------------------------------------------
(* C7 *)

\* C7: getTagsWithOperations and buildStructure raise no error, whatever tag
\* names the operations and the groups carry, names of built-in object
\* properties such as 'constructor' included.
C7_NeverThrows == ~threw

-----------------------------------------------------------------------------
(* C8 *)

\* C8 (as claimed): the prefix is reset per build: after a build it is the
\* id plus '/' of the last section of that build whose text holds the
\* marker, and the initial value when that build has no such section.
C8_ResetPerBuild ==
    Built =>
        securitySchemePrefix =
            IF TreeWrites(items) = <<>> THEN InitialPrefix
            ELSE TreeWrites(items)[Len(TreeWrites(items))]

\* C8 (amended): the prefix is last-write-wins across builds and is never
\* reset: a build that returns leaves it at the id plus '/' of the last
\* section it registered (a section registers after its sub-sections), and a
\* build with no such section leaves it as the earlier builds left it.
C8_LastWriteWins ==
    [][(lastOp' = "buildStructure" /\ ~threw') =>
          securitySchemePrefix' =
              IF TreeWrites(items') = <<>> THEN securitySchemePrefix
              ELSE TreeWrites(items')[Len(TreeWrites(items'))]]_vars

C8_Witness ==
    /\ Built
    /\ TreeWrites(items) = <<>>
    /\ securitySchemePrefix # InitialPrefix

-----------------------------------------------------------------------------
(* C9 *)

\* C9 (as claimed): at the root no 'section' Group comes after a 'group' or
\* 'tag' Group, and the root never holds both a 'group' and a 'tag' Group.
C9_SectionsFirst ==
    Built =>
        /\ \A i, j \in 1..Len(items) :
            (i < j /\ items[i].type \in {"group", "tag"}) => items[j].type # "section"
        /\ ~(\E i, j \in 1..Len(items) : items[i].type = "group" /\ items[j].type = "tag")

\* C9 (amended): the root starts with the 'section' Groups of
\* info.description; a 'section' Group that comes after a 'group' or 'tag'
\* Group at the root is one of the anonymous tag's description, hoisted in
\* the tag's place; the root never holds both a 'group' and a 'tag' Group.
C9_RootOrder ==
    Built =>
        /\ \A i \in 1..Len(spec.description) :
            /\ i <= Len(items)
            /\ items[i].type = "section"
            /\ items[i].name = spec.description[i].id
            /\ items[i].parent = NoParent
        /\ \A i, j \in 1..Len(items) :
            (i < j /\ items[i].type \in {"group", "tag"} /\ items[j].type = "section") =>
                items[j].parent = [type |-> "tag", name |-> ""]
        /\ ~(\E i, j \in 1..Len(items) : items[i].type = "group" /\ items[j].type = "tag")

C9_Witness ==
    /\ Built
    /\ items # <<>> /\ items[1].type = "section" /\ items[1].parent = NoParent
    /\ \E i, j \in 1..Len(items) :
        i < j /\ items[i].type = "tag" /\ items[j].type = "section"

-----------------------------------------------------------------------------
(* C10 *)

\* C10: in the returned map no tag's operations array holds the same
\* (pathName, httpVerb) twice, also when an operation's tags list names the
\* tag more than once.
C10_NoDuplicateOperations ==
    Collected =>
        \A t \in 1..Len(tagsMap) :
            LET ops == tagsMap[t].operations IN
            \A i, j \in 1..Len(ops) : i # j => ops[i] # ops[j]

=============================================================================
